---- MODULE Spec2Model ----
(***************************************************************************)
(* Model of the tick recorder repository.                                  *)
(*                                                                         *)
(*  - kite_to_file_producer.py: a lock-protected bounded deque filled by   *)
(*    enqueue_tick (called from on_ticks) and drained by _writer_loop,     *)
(*    which appends each batch to OUT_FILE.                                *)
(*  - nifty_spot_option_tick_recorder.py: on_ticks records every tick and, *)
(*    for spot ticks, update_option_band re-centres the option band and    *)
(*    reconciles subscribed_tokens through subscribe_tokens and            *)
(*    unsubscribe_tokens.                                                  *)
(*                                                                         *)
(* Spec is the ingestion pipeline, SpecBand the band manager.  An optional *)
(* Python value is modelled as a sequence: None is <<>>, a value x is      *)
(* <<x>>.                                                                  *)
(***************************************************************************)
EXTENDS Integers, Sequences, FiniteSets, TLC

VARIABLES
    \* ---- kite_to_file_producer.py ----
    write_queue,     \* _write_queue: deque(maxlen=QUEUE_MAXLEN)
    queue_lock,      \* _queue_lock: "free", or the thread that holds it
    queue_event,     \* _queue_event: the flag of the threading.Event
    ppc,             \* position of each thread calling enqueue_tick
    ptick,           \* the record each such thread is enqueueing
    wpc,             \* position of the _writer_loop thread
    batch,           \* _writer_loop's local batch
    widx,            \* index of the next record of batch to write
    out_file,        \* the lines appended to OUT_FILE, in order
    next_id,         \* identity given to the next record built by on_ticks
    enq_log,         \* history: every record appended to the deque, in order
    since_drain,     \* history: records appended since the writer last released the lock
    evicted,         \* history: records the deque dropped on overflow
    \* ---- nifty_spot_option_tick_recorder.py ----
    current_atm_strike,     \* None or the last committed reference strike
    current_option_tokens,  \* the option band last committed
    subscribed_tokens,      \* the manager's view of the feed's subscriptions
    token_to_sym,           \* instrument id -> trading symbol ("" when unknown)
    connected,              \* on_connect has been called at least once
    bpc,                    \* position of the feed thread inside its callback
    bctx,                   \* the callback it is in: "connect" or "ticks"
    batch_len,              \* number of records in the batch handed to on_ticks
    tick_idx,               \* index of the record of the batch being handled
    cur_tick,               \* on_ticks' loop variable t
    new_tokens,             \* update_option_band's local new_tokens
    csv_row,                \* the row record_tick wrote last for the present batch
    n_rows,                 \* number of rows record_tick wrote for the present batch
    feed_subs,              \* the ids the feed adapter has subscribed
    ws_calls,               \* history: feed calls made while handling the present record
    ok_subscribed,          \* history: ids passed to a successful ws.subscribe and
                            \* to no ws.unsubscribe call since
    sub_at_entry,           \* history: subscribed_tokens when the present reband began
    last_spot_atm,          \* history: rounded strike of the previous spot tick
    last_spot_done,         \* history: update_option_band returned normally for it
    \* ---- one call of a function of either file ----
    fn,                     \* the function called ("" when none is)
    fn_arg,                 \* its argument
    fn_result               \* None until it has returned, then Some(value)

pvars == <<write_queue, queue_lock, queue_event, ppc, ptick, wpc, batch, widx,
           out_file, next_id, enq_log, since_drain, evicted>>

bvars == <<current_atm_strike, current_option_tokens, subscribed_tokens,
           token_to_sym, connected, bpc, bctx, batch_len, tick_idx, cur_tick,
           new_tokens, csv_row, n_rows, feed_subs, ws_calls, ok_subscribed,
           sub_at_entry, last_spot_atm, last_spot_done>>

\* the call of a pure function that is being examined
fvars == <<fn, fn_arg, fn_result>>

vars == <<pvars, bvars, fvars>>

None == <<>>
Some(x) == <<x>>

(***************************************************************************)
(* Bounds of the model.                                                    *)
(***************************************************************************)
\* capacity N of the deque (200000 in the source, scaled down)
QUEUE_MAXLEN == 3
\* records built by on_ticks in one run
MaxTicks == 4

\* records in one on_ticks batch of the recorder
MaxBatch == 2

\* threads that call enqueue_tick (the feed's delivery thread; a second one
\* shows the lock at work)
Producers == {"p1", "p2"}

(***************************************************************************)
(* kite_to_file_producer.py                                                *)
(***************************************************************************)

\* a deque that never evicts: append without the maxlen bound
DequeAppendUnbounded(q, x) == Append(q, x)

\* collections.deque(maxlen=n).append(x): when full, the item at the left
\* end is discarded as x is added on the right
DequeAppend(q, x) ==
    IF Len(q) >= QUEUE_MAXLEN
    THEN IF QUEUE_MAXLEN = 0 THEN <<>> ELSE Append(Tail(q), x)
    ELSE Append(q, x)

\* on_ticks: one record of the batch is normalized and enqueue_tick is called
ProducerOnTick(p) ==
    /\ ppc[p] = "idle"
    /\ next_id <= MaxTicks
    /\ ptick' = [ptick EXCEPT ![p] = next_id]
    /\ next_id' = next_id + 1
    /\ ppc' = [ppc EXCEPT ![p] = "acquire"]
    /\ UNCHANGED <<write_queue, queue_lock, queue_event, wpc, batch, widx,
                   out_file, enq_log, since_drain, evicted, bvars, fvars>>

\* enqueue_tick: with _queue_lock (entry)
ProducerAcquire(p) ==
    /\ ppc[p] = "acquire"
    /\ queue_lock = "free"
    /\ queue_lock' = p
    /\ ppc' = [ppc EXCEPT ![p] = "append"]
    /\ UNCHANGED <<write_queue, queue_event, ptick, wpc, batch, widx,
                   out_file, next_id, enq_log, since_drain, evicted, bvars, fvars>>

\* enqueue_tick: _write_queue.append(t)
ProducerAppend(p) ==
    /\ ppc[p] = "append"
    /\ write_queue' = DequeAppend(write_queue, ptick[p])
    /\ enq_log' = Append(enq_log, ptick[p])
    /\ since_drain' = Append(since_drain, ptick[p])
    /\ evicted' = evicted \cup
                    ({write_queue[i] : i \in 1..Len(write_queue)}
                        \ {write_queue'[i] : i \in 1..Len(write_queue')})
    /\ ppc' = [ppc EXCEPT ![p] = "set"]
    /\ UNCHANGED <<queue_lock, queue_event, ptick, wpc, batch, widx,
                   out_file, next_id, bvars, fvars>>

\* an enqueue_tick that leaves the event as it is
ProducerNoSet(p) ==
    /\ ppc[p] = "set"
    /\ ppc' = [ppc EXCEPT ![p] = "release"]
    /\ UNCHANGED <<write_queue, queue_lock, queue_event, ptick, wpc, batch, widx,
                   out_file, next_id, enq_log, since_drain, evicted, bvars, fvars>>

\* enqueue_tick: _queue_event.set()
ProducerSet(p) ==
    /\ ppc[p] = "set"
    /\ queue_event' = TRUE
    /\ ppc' = [ppc EXCEPT ![p] = "release"]
    /\ UNCHANGED <<write_queue, queue_lock, ptick, wpc, batch, widx,
                   out_file, next_id, enq_log, since_drain, evicted, bvars, fvars>>

\* enqueue_tick: with _queue_lock (exit)
ProducerRelease(p) ==
    /\ ppc[p] = "release"
    /\ queue_lock' = "free"
    /\ ppc' = [ppc EXCEPT ![p] = "idle"]
    /\ UNCHANGED <<write_queue, queue_event, ptick, wpc, batch, widx,
                   out_file, next_id, enq_log, since_drain, evicted, bvars, fvars>>

\* _writer_loop: _queue_event.wait(timeout) returns because the event is set
WriterWakeSignal ==
    /\ wpc = "wait"
    /\ queue_event
    /\ batch' = <<>>
    /\ wpc' = "acquire"
    /\ UNCHANGED <<write_queue, queue_lock, queue_event, ppc, ptick, widx,
                   out_file, next_id, enq_log, since_drain, evicted, bvars, fvars>>

\* _writer_loop: _queue_event.wait(timeout) returns because FLUSH_INTERVAL elapsed
WriterWakeTimeout ==
    /\ wpc = "wait"
    /\ ~queue_event
    /\ batch' = <<>>
    /\ wpc' = "acquire"
    /\ UNCHANGED <<write_queue, queue_lock, queue_event, ppc, ptick, widx,
                   out_file, next_id, enq_log, since_drain, evicted, bvars, fvars>>

\* _writer_loop: with _queue_lock (entry)
WriterAcquire ==
    /\ wpc = "acquire"
    /\ queue_lock = "free"
    /\ queue_lock' = "writer"
    /\ wpc' = "drain"
    /\ UNCHANGED <<write_queue, queue_event, ppc, ptick, batch, widx,
                   out_file, next_id, enq_log, since_drain, evicted, bvars, fvars>>

\* a drain that takes the newest record first: pop() in place of popleft()
WriterPopRight ==
    /\ wpc = "drain"
    /\ write_queue # <<>>
    /\ batch' = Append(batch, write_queue[Len(write_queue)])
    /\ write_queue' = SubSeq(write_queue, 1, Len(write_queue) - 1)
    /\ UNCHANGED <<queue_lock, queue_event, ppc, ptick, wpc, widx,
                   out_file, next_id, enq_log, since_drain, evicted, bvars, fvars>>

\* _writer_loop: while _write_queue: batch.append(_write_queue.popleft())
WriterPop ==
    /\ wpc = "drain"
    /\ write_queue # <<>>
    /\ batch' = Append(batch, Head(write_queue))
    /\ write_queue' = Tail(write_queue)
    /\ UNCHANGED <<queue_lock, queue_event, ppc, ptick, wpc, widx,
                   out_file, next_id, enq_log, since_drain, evicted, bvars, fvars>>

\* _writer_loop: the while loop ends on the empty deque
WriterDrained ==
    /\ wpc = "drain"
    /\ write_queue = <<>>
    /\ wpc' = "clear"
    /\ UNCHANGED <<write_queue, queue_lock, queue_event, ppc, ptick, batch, widx,
                   out_file, next_id, enq_log, since_drain, evicted, bvars, fvars>>

\* _writer_loop: _queue_event.clear()
WriterClear ==
    /\ wpc = "clear"
    /\ queue_event' = FALSE
    /\ wpc' = "release"
    /\ UNCHANGED <<write_queue, queue_lock, ppc, ptick, batch, widx,
                   out_file, next_id, enq_log, since_drain, evicted, bvars, fvars>>

\* a writer whose file write sits inside the with block: the lock is kept
WriterKeepLock ==
    /\ wpc = "release"
    /\ since_drain' = <<>>
    /\ wpc' = "check"
    /\ UNCHANGED <<write_queue, queue_lock, queue_event, ppc, ptick, batch, widx,
                   out_file, next_id, enq_log, evicted, bvars, fvars>>

\* _writer_loop: with _queue_lock (exit)
WriterRelease ==
    /\ wpc = "release"
    /\ queue_lock' = "free"
    /\ since_drain' = <<>>
    /\ wpc' = "check"
    /\ UNCHANGED <<write_queue, queue_event, ppc, ptick, batch, widx,
                   out_file, next_id, enq_log, evicted, bvars, fvars>>

\* a writer without the test of the batch: it opens the file for any batch
WriterOpenEmpty ==
    /\ wpc = "check"
    /\ batch = <<>>
    /\ wpc' = "open"
    /\ UNCHANGED <<write_queue, queue_lock, queue_event, ppc, ptick, batch, widx,
                   out_file, next_id, enq_log, since_drain, evicted, bvars, fvars>>

\* _writer_loop: if not batch: continue
WriterSkipEmpty ==
    /\ wpc = "check"
    /\ batch = <<>>
    /\ wpc' = "wait"
    /\ UNCHANGED <<write_queue, queue_lock, queue_event, ppc, ptick, batch, widx,
                   out_file, next_id, enq_log, since_drain, evicted, bvars, fvars>>

\* a writer whose test of the batch is inverted: a non-empty batch is dropped
WriterDropBatch ==
    /\ wpc = "check"
    /\ batch # <<>>
    /\ wpc' = "wait"
    /\ UNCHANGED <<write_queue, queue_lock, queue_event, ppc, ptick, batch, widx,
                   out_file, next_id, enq_log, since_drain, evicted, bvars, fvars>>

\* _writer_loop: the batch is not empty, go on to the file
WriterHasBatch ==
    /\ wpc = "check"
    /\ batch # <<>>
    /\ wpc' = "open"
    /\ UNCHANGED <<write_queue, queue_lock, queue_event, ppc, ptick, batch, widx,
                   out_file, next_id, enq_log, since_drain, evicted, bvars, fvars>>

\* _writer_loop: open(OUT_FILE, "a") succeeds
WriterOpenOk ==
    /\ wpc = "open"
    /\ widx' = 1
    /\ wpc' = "write"
    /\ UNCHANGED <<write_queue, queue_lock, queue_event, ppc, ptick, batch,
                   out_file, next_id, enq_log, since_drain, evicted, bvars, fvars>>

\* _writer_loop: open(OUT_FILE, "a") raises OSError; nothing in the loop
\* catches it, so the thread ends
WriterOpenFail ==
    /\ wpc = "open"
    /\ wpc' = "dead"
    /\ UNCHANGED <<write_queue, queue_lock, queue_event, ppc, ptick, batch, widx,
                   out_file, next_id, enq_log, since_drain, evicted, bvars, fvars>>

\* _writer_loop: f.write(json.dumps(tick) + "\n") for the next record
WriterWriteOk ==
    /\ wpc = "write"
    /\ widx <= Len(batch)
    /\ out_file' = Append(out_file, batch[widx])
    /\ widx' = widx + 1
    /\ UNCHANGED <<write_queue, queue_lock, queue_event, ppc, ptick, wpc, batch,
                   next_id, enq_log, since_drain, evicted, bvars, fvars>>

\* _writer_loop: f.write raises OSError; the with block closes the file and
\* the exception ends the thread
WriterWriteFail ==
    /\ wpc = "write"
    /\ widx <= Len(batch)
    /\ wpc' = "dead"
    /\ UNCHANGED <<write_queue, queue_lock, queue_event, ppc, ptick, batch, widx,
                   out_file, next_id, enq_log, since_drain, evicted, bvars, fvars>>

\* _writer_loop: the for loop is over, the file is closed, next cycle
WriterClose ==
    /\ wpc = "write"
    /\ widx > Len(batch)
    /\ wpc' = "wait"
    /\ UNCHANGED <<write_queue, queue_lock, queue_event, ppc, ptick, batch, widx,
                   out_file, next_id, enq_log, since_drain, evicted, bvars, fvars>>

(***************************************************************************)
(* nifty_spot_option_tick_recorder.py                                      *)
(***************************************************************************)

STRIKE_STEP == 50

\* OPTION_EXPIRIES, each date as <<year, month, day>>
OPTION_EXPIRIES == {<<2026, 1, 20>>, <<2026, 1, 27>>, <<2026, 2, 3>>}

\* spot_tokens: the ids kite.instruments("NSE") lists for "NIFTY 50"
spot_tokens == {256265}

\* strikes the NFO catalog lists; the last expiry lists only every second one
ListedStrikes == {17400, 17450, 17500, 17550, 17600, 17650}

ListedKeys ==
    {k \in ListedStrikes \X {"CE", "PE"} \X OPTION_EXPIRIES :
        k[3] = <<2026, 2, 3>> => k[1] % 100 = 0}

\* the id the catalog gives an option contract
CatalogToken(strike, opt, exp) ==
    strike * 100 + exp[2] * 20 + (exp[3] \div 7) * 2 + (IF opt = "CE" THEN 1 ELSE 2)

\* kite.instruments("NFO"): the option contracts, one futures contract, which
\* has no strike and no option type, one option of another underlying and
\* one NIFTY option of an expiry that is not in OPTION_EXPIRIES
NfoInstruments ==
    {[instrument_token |-> CatalogToken(k[1], k[2], k[3]),
      tradingsymbol |-> "NIFTY" \o ToString(k[3][2]) \o ToString(k[3][3])
                           \o ToString(k[1]) \o k[2],
      name |-> "NIFTY", strike |-> k[1], option_type |-> k[2],
      expiry |-> k[3]] : k \in ListedKeys}
    \cup
    {[instrument_token |-> 999, tradingsymbol |-> "NIFTY26JANFUT",
      name |-> "NIFTY", strike |-> 0, option_type |-> "",
      expiry |-> <<2026, 1, 27>>],
     [instrument_token |-> 5001, tradingsymbol |-> "BANKNIFTY12017500CE",
      name |-> "BANKNIFTY", strike |-> 17500, option_type |-> "CE",
      expiry |-> <<2026, 1, 20>>],
     [instrument_token |-> 5002, tradingsymbol |-> "NIFTY21017500CE",
      name |-> "NIFTY", strike |-> 17500, option_type |-> "CE",
      expiry |-> <<2026, 2, 10>>]}

\* build_nfo_index_with_expiry keeps an instrument only when underlying,
\* strike, option type and expiry are all truthy
Indexed(inst) ==
    inst.name # "" /\ inst.strike # 0 /\ inst.option_type # "" /\ inst.expiry # <<>>

\* build_nfo_index_with_expiry: key = (underlying, strike, opt_type, expiry)
IndexKey(inst) == <<inst.name, inst.strike, inst.option_type, inst.expiry>>

\* build_nfo_index_with_expiry: index, the dict from key to instrument
nfo_index_by_key ==
    LET kept == {i \in NfoInstruments : Indexed(i)}
    IN [k \in {IndexKey(i) : i \in kept} |-> CHOOSE i \in kept : IndexKey(i) = k]

\* build_nfo_index_with_expiry: token_meta, the dict from token to metadata
option_meta_by_token ==
    LET kept == {i \in NfoInstruments : Indexed(i)}
    IN [tok \in {i.instrument_token : i \in kept} |->
          LET inst == CHOOSE i \in kept : i.instrument_token = tok
          IN [expiry |-> inst.expiry, strike |-> inst.strike,
              opt_type |-> inst.option_type, tradingsymbol |-> inst.tradingsymbol]]

\* resolve_option: Some(<<token, tradingsymbol>>) or None
resolve_option(underlying, strike, opt_type, expiry) ==
    LET key == <<underlying, strike, opt_type, expiry>>
    IN IF key \notin DOMAIN nfo_index_by_key THEN None
       ELSE Some(<<nfo_index_by_key[key].instrument_token,
                   nfo_index_by_key[key].tradingsymbol>>)

\* a rounding that truncates: int(n / d) in place of round(n / d)
RoundDown(n, d) == n \div d

\* Python's round(n / d) for integers n >= 0, d > 0: to nearest, ties to even
RoundHalfEven(n, d) ==
    LET q == n \div d
        r == n % d
    IN IF 2 * r < d THEN q
       ELSE IF 2 * r > d THEN q + 1
       ELSE IF q % 2 = 0 THEN q ELSE q + 1

\* round_to_strike: None when the division raises (price missing or not a number)
round_to_strike(price) ==
    IF price = None THEN None
    ELSE Some(RoundHalfEven(price[1], STRIKE_STEP) * STRIKE_STEP)

\* a band that leaves out the two outer strikes
BandStrikesInner(atm) == {atm, atm - 50, atm + 50}

\* update_option_band: strikes = {atm, atm-50, atm+50, atm-100, atm+100}
BandStrikes(atm) == {atm, atm - 50, atm + 50, atm - 100, atm + 100}

\* update_option_band: the (token, tradingsymbol) pairs the index resolves
\* for the band of atm
ResolvedBand(atm) ==
    LET tried == {resolve_option("NIFTY", st, opt, exp) :
                    st \in BandStrikes(atm), opt \in {"CE", "PE"},
                    exp \in OPTION_EXPIRIES}
    IN {r[1] : r \in {x \in tried : x # None /\ x[1][1] # 0}}

\* update_option_band: new_tokens for atm
BandTokens(atm) == {r[1] : r \in ResolvedBand(atm)}

\* subscribe_tokens: t = [x for x in tokens if x not in subscribed_tokens]
SubscribeList(tokens) == {x \in tokens : x \notin subscribed_tokens}

\* an unsubscribe_tokens whose filter is inverted
UnsubscribeListInverted(tokens) == {x \in tokens : x \notin subscribed_tokens}

\* unsubscribe_tokens: t = [x for x in tokens if x in subscribed_tokens]
UnsubscribeList(tokens) == {x \in tokens : x \in subscribed_tokens}

\* ---- the records the feed delivers ----

\* the instrument_token field of a raw record: an integer, absent, or a
\* value int() rejects
TokInt(n) == [tag |-> "int", val |-> n]
TokMissing == [tag |-> "missing", val |-> 0]
TokBad == [tag |-> "bad", val |-> 0]

SpotPrices == {17482, 17498, 17526, 17760, 17860}

RawTicks ==
    {[instrument_token |-> TokInt(256265), last_price |-> Some(p)] : p \in SpotPrices}
    \cup {[instrument_token |-> TokInt(256265), last_price |-> None],
          [instrument_token |-> TokInt(CatalogToken(17500, "CE", <<2026, 1, 20>>)),
           last_price |-> Some(120)],
          [instrument_token |-> TokMissing, last_price |-> Some(7)],
          [instrument_token |-> TokBad, last_price |-> Some(7)]}

\* on_ticks: tok = int(t.get("instrument_token", 0)); None when int() raises
TickToken(t) ==
    IF t.instrument_token.tag = "int" THEN Some(t.instrument_token.val)
    ELSE IF t.instrument_token.tag = "missing" THEN Some(0)
    ELSE None

\* value of the loop variable outside the loop
NoTick == [instrument_token |-> TokMissing, last_price |-> None]

\* update_option_band: atm = round_to_strike(spot_ltp)
CurAtm == round_to_strike(cur_tick.last_price)

\* date.isoformat()
Pad2(n) == IF n < 10 THEN "0" \o ToString(n) ELSE ToString(n)
IsoFormat(d) == ToString(d[1]) \o "-" \o Pad2(d[2]) \o "-" \o Pad2(d[3])

\* a record_tick whose test of the kind is inverted
CsvRowKindInverted(instrument_token, tradingsymbol, kind, last_price) ==
    LET found == kind # "OPT" /\ instrument_token \in DOMAIN option_meta_by_token
        meta == option_meta_by_token[instrument_token]
    IN [instrument_token |-> instrument_token,
        tradingsymbol |-> tradingsymbol,
        kind |-> kind,
        last_price |-> last_price,
        expiry |-> IF found THEN IsoFormat(meta.expiry) ELSE "",
        strike |-> IF found THEN Some(meta.strike) ELSE None,
        option_type |-> IF found THEN meta.opt_type ELSE ""]

\* record_tick: the row written for one tick (the timestamp column is left out)
CsvRow(instrument_token, tradingsymbol, kind, last_price) ==
    LET found == kind = "OPT" /\ instrument_token \in DOMAIN option_meta_by_token
        meta == option_meta_by_token[instrument_token]
    IN [instrument_token |-> instrument_token,
        tradingsymbol |-> tradingsymbol,
        kind |-> kind,
        last_price |-> last_price,
        expiry |-> IF found THEN IsoFormat(meta.expiry) ELSE "",
        strike |-> IF found THEN Some(meta.strike) ELSE None,
        option_type |-> IF found THEN meta.opt_type ELSE ""]

\* the module globals of the recorder
globals == <<current_atm_strike, current_option_tokens, subscribed_tokens, token_to_sym>>

\* the locals of the running callback
locals == <<batch_len, tick_idx, cur_tick, new_tokens, csv_row, n_rows>>

\* the history of the previous spot tick
lastspot == <<last_spot_atm, last_spot_done>>

\* a callback is over: its locals are gone
LocalsReset ==
    /\ batch_len' = 0
    /\ tick_idx' = 1
    /\ cur_tick' = NoTick
    /\ new_tokens' = {}
    /\ csv_row' = None
    /\ n_rows' = 0
    /\ ws_calls' = <<>>
    /\ sub_at_entry' = {}

\* on_connect: subscribe_tokens(ws, spot_tokens) begins; the later
\* subscribe_tokens(ws, initial_option_tokens_to_subscribe) has an empty list
OnConnect ==
    /\ bpc \in {"down", "idle"}
    /\ connected' = TRUE
    /\ bctx' = "connect"
    /\ bpc' = "sub"
    /\ UNCHANGED <<globals, locals, ws_calls, ok_subscribed, feed_subs, sub_at_entry,
                   lastspot, pvars, fvars>>

\* the feed delivers a record with a readable instrument id only while it
\* has that id subscribed
Deliverable(t) ==
    t.instrument_token.tag = "int" => t.instrument_token.val \in feed_subs

\* the feed calls on_ticks(ws, ticks) with a batch of n records; the records
\* are read one by one as the for loop reaches them
OnTicks(n) ==
    /\ bpc = "idle"
    /\ connected
    /\ feed_subs # {}
    /\ batch_len' = n
    /\ tick_idx' = 1
    /\ bctx' = "ticks"
    /\ bpc' = "fetch"
    /\ UNCHANGED <<globals, connected, cur_tick, new_tokens, csv_row, n_rows,
                   ws_calls, ok_subscribed, feed_subs, sub_at_entry, lastspot, pvars, fvars>>

\* on_ticks: for t in ticks, the next record is t
TickNext(t) ==
    /\ bpc = "fetch"
    /\ tick_idx <= batch_len
    /\ Deliverable(t)
    /\ cur_tick' = t
    /\ ws_calls' = <<>>
    /\ bpc' = "tick"
    /\ UNCHANGED <<globals, connected, bctx, batch_len, tick_idx, new_tokens,
                   csv_row, n_rows, ok_subscribed, feed_subs, sub_at_entry, lastspot, pvars, fvars>>

\* on_ticks: the for loop is over, on_ticks returns
OnTicksReturn ==
    /\ bpc = "fetch"
    /\ tick_idx > batch_len
    /\ bpc' = "idle"
    /\ LocalsReset
    /\ UNCHANGED <<globals, connected, bctx, ok_subscribed, feed_subs, lastspot, pvars, fvars>>

\* on_ticks: int(t.get("instrument_token", 0)) raises; nothing catches it, so
\* the exception leaves on_ticks with the rest of the batch unhandled
TickBadToken ==
    /\ bpc = "tick"
    /\ TickToken(cur_tick) = None
    /\ bpc' = "raised"
    /\ UNCHANGED <<globals, connected, bctx, locals, ws_calls, ok_subscribed, feed_subs,
                   sub_at_entry, lastspot, pvars, fvars>>

\* on_ticks: one record is recorded by record_tick; a spot record goes on to
\* update_option_band, any other to the next record
TickRecord ==
    /\ bpc = "tick"
    /\ TickToken(cur_tick) # None
    /\ LET tok == TickToken(cur_tick)[1]
           kind == IF tok \in spot_tokens THEN "SPOT" ELSE "OPT"
           tsym == IF tok \in DOMAIN token_to_sym THEN token_to_sym[tok] ELSE ""
       IN /\ csv_row' = Some(CsvRow(tok, tsym, kind, cur_tick.last_price))
          /\ n_rows' = n_rows + 1
          /\ IF tok \in spot_tokens
             THEN bpc' = "band" /\ tick_idx' = tick_idx
             ELSE bpc' = "fetch" /\ tick_idx' = tick_idx + 1
    /\ UNCHANGED <<globals, connected, bctx, batch_len, cur_tick, new_tokens,
                   ws_calls, ok_subscribed, feed_subs, sub_at_entry, lastspot, pvars, fvars>>

\* update_option_band: atm == current_atm_strike
SameStrike(atm) == atm = current_atm_strike

\* update_option_band: if atm == current_atm_strike: return
BandSame ==
    /\ bpc = "band"
    /\ SameStrike(CurAtm)
    /\ bpc' = "fetch"
    /\ tick_idx' = tick_idx + 1
    /\ last_spot_atm' = Some(CurAtm)
    /\ last_spot_done' = TRUE
    /\ UNCHANGED <<globals, connected, bctx, batch_len, cur_tick, new_tokens,
                   csv_row, n_rows, ws_calls, ok_subscribed, feed_subs, sub_at_entry, pvars, fvars>>

\* update_option_band: atm is None but current_atm_strike is not: atm-50
\* raises TypeError, which leaves update_option_band and on_ticks
BandRaise ==
    /\ bpc = "band"
    /\ ~SameStrike(CurAtm)
    /\ CurAtm = None
    /\ bpc' = "raised"
    /\ last_spot_atm' = Some(CurAtm)
    /\ last_spot_done' = FALSE
    /\ UNCHANGED <<globals, connected, bctx, locals, ws_calls, ok_subscribed, feed_subs,
                   sub_at_entry, pvars, fvars>>

\* update_option_band: the new band is resolved (new_tokens, token_to_sym)
\* and unsubscribe_tokens(ws, current_option_tokens - new_tokens) begins
BandCompute ==
    /\ bpc = "band"
    /\ ~SameStrike(CurAtm)
    /\ CurAtm # None
    /\ LET band == ResolvedBand(CurAtm[1])
           toks == {r[1] : r \in band}
       IN /\ new_tokens' = toks
          /\ token_to_sym' =
                [tok \in DOMAIN token_to_sym \cup toks |->
                    IF tok \in toks
                    THEN (CHOOSE r \in band : r[1] = tok)[2]
                    ELSE token_to_sym[tok]]
    /\ sub_at_entry' = subscribed_tokens
    /\ bpc' = "unsub"
    /\ UNCHANGED <<current_atm_strike, current_option_tokens, subscribed_tokens,
                   connected, bctx, batch_len, tick_idx, cur_tick, csv_row, n_rows,
                   ws_calls, ok_subscribed, feed_subs, lastspot, pvars, fvars>>

\* the argument of the running unsubscribe_tokens call
UnsubscribeArg == current_option_tokens \ new_tokens

\* the argument of the running subscribe_tokens call
SubscribeArg ==
    IF bctx = "connect" THEN spot_tokens ELSE new_tokens \ current_option_tokens

\* unsubscribe_tokens: t is empty, nothing is done
UnsubscribeSkip ==
    /\ bpc = "unsub"
    /\ UnsubscribeList(UnsubscribeArg) = {}
    /\ bpc' = "sub"
    /\ UNCHANGED <<globals, connected, bctx, locals, ws_calls, ok_subscribed, feed_subs,
                   sub_at_entry, lastspot, pvars, fvars>>

\* unsubscribe_tokens: ws.unsubscribe(t) returns and each x of t is discarded
UnsubscribeOk ==
    /\ bpc = "unsub"
    /\ UnsubscribeList(UnsubscribeArg) # {}
    /\ LET t == UnsubscribeList(UnsubscribeArg)
       IN /\ ws_calls' = Append(ws_calls, <<"unsubscribe", t>>)
          /\ feed_subs' = feed_subs \ t
          /\ ok_subscribed' = ok_subscribed \ t
          /\ subscribed_tokens' = subscribed_tokens \ t
    /\ bpc' = "sub"
    /\ UNCHANGED <<current_atm_strike, current_option_tokens, token_to_sym,
                   connected, bctx, locals, sub_at_entry, lastspot, pvars, fvars>>

\* unsubscribe_tokens: ws.unsubscribe(t) raises; the exception leaves
\* update_option_band and on_ticks
UnsubscribeFail ==
    /\ bpc = "unsub"
    /\ UnsubscribeList(UnsubscribeArg) # {}
    /\ LET t == UnsubscribeList(UnsubscribeArg)
       IN /\ ws_calls' = Append(ws_calls, <<"unsubscribe", t>>)
          /\ ok_subscribed' = ok_subscribed \ t
    /\ UNCHANGED feed_subs
    /\ bpc' = "raised"
    /\ last_spot_atm' = Some(CurAtm)
    /\ last_spot_done' = FALSE
    /\ UNCHANGED <<globals, connected, bctx, locals, sub_at_entry, pvars, fvars>>

\* where subscribe_tokens returns to: update_option_band goes on to its two
\* assignments, on_connect to its second subscribe_tokens call
AfterSubscribe == IF bctx = "connect" THEN "connected" ELSE "commit"

\* subscribe_tokens: t is empty, nothing is done
SubscribeSkip ==
    /\ bpc = "sub"
    /\ SubscribeList(SubscribeArg) = {}
    /\ bpc' = AfterSubscribe
    /\ UNCHANGED <<globals, connected, bctx, locals, ws_calls, ok_subscribed, feed_subs,
                   sub_at_entry, lastspot, pvars, fvars>>

\* subscribe_tokens: ws.subscribe(t) returns
SubscribeOk ==
    /\ bpc = "sub"
    /\ SubscribeList(SubscribeArg) # {}
    /\ LET t == SubscribeList(SubscribeArg)
       IN /\ ws_calls' = Append(ws_calls, <<"subscribe", t>>)
          /\ feed_subs' = feed_subs \cup t
          /\ ok_subscribed' = ok_subscribed \cup t
    /\ bpc' = "setmode"
    /\ UNCHANGED <<globals, connected, bctx, locals, sub_at_entry, lastspot, pvars, fvars>>

\* an exception of a feed call made by subscribe_tokens leaves the callback
SubscribeAbort ==
    /\ bpc' = "raised"
    /\ IF bctx = "connect"
       THEN UNCHANGED lastspot
       ELSE last_spot_atm' = Some(CurAtm) /\ last_spot_done' = FALSE

\* subscribe_tokens: ws.subscribe(t) raises
SubscribeFail ==
    /\ bpc = "sub"
    /\ SubscribeList(SubscribeArg) # {}
    /\ ws_calls' = Append(ws_calls, <<"subscribe", SubscribeList(SubscribeArg)>>)
    /\ SubscribeAbort
    /\ UNCHANGED <<globals, connected, bctx, locals, ok_subscribed, feed_subs, sub_at_entry,
                   pvars, fvars>>

\* subscribe_tokens: ws.set_mode(ws.MODE_FULL, t) returns and
\* subscribed_tokens.update(t)
SetModeOk ==
    /\ bpc = "setmode"
    /\ LET t == SubscribeList(SubscribeArg)
       IN /\ ws_calls' = Append(ws_calls, <<"set_mode", t>>)
          /\ subscribed_tokens' = subscribed_tokens \cup t
    /\ bpc' = AfterSubscribe
    /\ UNCHANGED <<current_atm_strike, current_option_tokens, token_to_sym,
                   connected, bctx, locals, ok_subscribed, feed_subs, sub_at_entry, lastspot,
                   pvars, fvars>>

\* subscribe_tokens: ws.set_mode(ws.MODE_FULL, t) raises
SetModeFail ==
    /\ bpc = "setmode"
    /\ ws_calls' = Append(ws_calls, <<"set_mode", SubscribeList(SubscribeArg)>>)
    /\ SubscribeAbort
    /\ UNCHANGED <<globals, connected, bctx, locals, ok_subscribed, feed_subs, sub_at_entry,
                   pvars, fvars>>

\* update_option_band: current_option_tokens = new_tokens;
\* current_atm_strike = atm; back in on_ticks
BandCommit ==
    /\ bpc = "commit"
    /\ current_option_tokens' = new_tokens
    /\ current_atm_strike' = CurAtm
    /\ last_spot_atm' = Some(CurAtm)
    /\ last_spot_done' = TRUE
    /\ bpc' = "fetch"
    /\ tick_idx' = tick_idx + 1
    /\ UNCHANGED <<subscribed_tokens, token_to_sym, connected, bctx, batch_len,
                   cur_tick, new_tokens, csv_row, n_rows, ws_calls, ok_subscribed, feed_subs,
                   sub_at_entry, pvars, fvars>>

\* on_connect: subscribe_tokens(ws, initial_option_tokens_to_subscribe) finds
\* its list empty, and on_connect returns
OnConnectReturn ==
    /\ bpc = "connected"
    /\ bpc' = "idle"
    /\ LocalsReset
    /\ UNCHANGED <<globals, connected, bctx, ok_subscribed, feed_subs, lastspot, pvars, fvars>>

\* the exception of a callback reaches the feed library, which goes on
\* delivering
FeedResumes ==
    /\ bpc = "raised"
    /\ bpc' = "idle"
    /\ LocalsReset
    /\ UNCHANGED <<globals, connected, bctx, ok_subscribed, feed_subs, lastspot, pvars, fvars>>

\* ---- the timestamp of a tick, in both files ----

\* the keys tried, in order
TsKeys == <<"timestamp", "last_trade_time", "exchange_timestamp">>

\* what a tick can hold under a key: nothing, an empty string, a string that
\* is no date, a string that is one, a datetime object (n tells the keys apart)
TsValues(n) ==
    {[tag |-> "absent", val |-> ""],
     [tag |-> "str", val |-> ""],
     [tag |-> "str", val |-> "n/a"],
     [tag |-> "str", val |-> "2026-01-20 09:15:0" \o n],
     [tag |-> "datetime", val |-> "2026-01-20 09:16:0" \o n]}

TsTicks ==
    [timestamp : TsValues("1"), last_trade_time : TsValues("2"),
     exchange_timestamp : TsValues("3")]

\* if t.get(k): absent gives None, and None and "" are falsy
Truthy(v) == v.tag = "datetime" \/ (v.tag = "str" /\ v.val # "")

\* pd.to_datetime(v): Some(Timestamp), or None when it raises
pd_to_datetime(v) ==
    IF v.tag = "datetime" \/ (v.tag = "str" /\ v.val \notin {"", "n/a"})
    THEN Some([tag |-> "Timestamp", val |-> v.val])
    ELSE None

\* str(v): the text of a datetime, a string as it is
PyStr(v) == [tag |-> "str", val |-> v.val]

\* recorder, _extract_tick_ts: the loop from the i-th key on
RECURSIVE ExtractTickTsFrom(_, _)
ExtractTickTsFrom(t, i) ==
    IF i > Len(TsKeys) THEN [tag |-> "Timestamp", val |-> "now"]
    ELSE LET v == t[TsKeys[i]]
         IN IF Truthy(v) /\ pd_to_datetime(v) # None
            THEN pd_to_datetime(v)[1]
            ELSE ExtractTickTsFrom(t, i + 1)

extract_tick_ts(t) == ExtractTickTsFrom(t, 1)

\* producer, _extract_ts_from_tick: the loop from the i-th key on
RECURSIVE ExtractTsFromTickFrom(_, _)
ExtractTsFromTickFrom(t, i) ==
    IF i > Len(TsKeys) THEN [tag |-> "str", val |-> "now"]
    ELSE LET v == t[TsKeys[i]]
         IN IF Truthy(v) THEN PyStr(v) ELSE ExtractTsFromTickFrom(t, i + 1)

extract_ts_from_tick(t) == ExtractTsFromTickFrom(t, 1)

\* ---- one call of a pure function ----

MinPrice == 17450
MaxPrice == 17560

\* the spot prices round_to_strike is called with
RoundPrices == {Some(p) : p \in MinPrice..MaxPrice} \cup {None}

CallExtractTickTs ==
    /\ fn = "_extract_tick_ts"
    /\ fn_result = None
    /\ fn_result' = Some(extract_tick_ts(fn_arg))
    /\ UNCHANGED <<fn, fn_arg, pvars, bvars>>

CallExtractTsFromTick ==
    /\ fn = "_extract_ts_from_tick"
    /\ fn_result = None
    /\ fn_result' = Some(extract_ts_from_tick(fn_arg))
    /\ UNCHANGED <<fn, fn_arg, pvars, bvars>>

CallRoundToStrike ==
    /\ fn = "round_to_strike"
    /\ fn_result = None
    /\ fn_result' = Some(round_to_strike(fn_arg))
    /\ UNCHANGED <<fn, fn_arg, pvars, bvars>>

BandInit ==
    /\ current_atm_strike = None
    /\ current_option_tokens = {}
    /\ subscribed_tokens = {}
    /\ token_to_sym = [tok \in spot_tokens |-> "NIFTY 50"]
    /\ connected = FALSE
    /\ bpc = "down"
    /\ bctx = "connect"
    /\ batch_len = 0
    /\ tick_idx = 1
    /\ cur_tick = NoTick
    /\ new_tokens = {}
    /\ csv_row = None
    /\ n_rows = 0
    /\ feed_subs = {}
    /\ ws_calls = <<>>
    /\ ok_subscribed = {}
    /\ sub_at_entry = {}
    /\ last_spot_atm = <<>>
    /\ last_spot_done = FALSE

BandNext ==
    \/ OnConnect
    \/ OnConnectReturn
    \/ \E n \in 1..MaxBatch : OnTicks(n)
    \/ \E t \in RawTicks : TickNext(t)
    \/ OnTicksReturn
    \/ TickBadToken
    \/ TickRecord
    \/ BandSame
    \/ BandRaise
    \/ BandCompute
    \/ UnsubscribeSkip
    \/ UnsubscribeOk
    \/ UnsubscribeFail
    \/ SubscribeSkip
    \/ SubscribeOk
    \/ SubscribeFail
    \/ SetModeOk
    \/ SetModeFail
    \/ BandCommit
    \/ FeedResumes

PipelineInit ==
    /\ write_queue = <<>>
    /\ queue_lock = "free"
    /\ queue_event = FALSE
    /\ ppc = [p \in Producers |-> "idle"]
    /\ ptick = [p \in Producers |-> 0]
    /\ wpc = "wait"
    /\ batch = <<>>
    /\ widx = 1
    /\ out_file = <<>>
    /\ next_id = 1
    /\ enq_log = <<>>
    /\ since_drain = <<>>
    /\ evicted = {}

\* no function is being examined
NoCall ==
    /\ fn = ""
    /\ fn_arg = None
    /\ fn_result = None

Init == PipelineInit /\ BandInit /\ NoCall

\* a function is about to be called with one of its arguments
InitPure ==
    /\ PipelineInit
    /\ BandInit
    /\ fn_result = None
    /\ \/ fn = "_extract_tick_ts" /\ fn_arg \in TsTicks
       \/ fn = "_extract_ts_from_tick" /\ fn_arg \in TsTicks
       \/ fn = "round_to_strike" /\ fn_arg \in RoundPrices

PureNext ==
    \/ CallExtractTickTs
    \/ CallExtractTsFromTick
    \/ CallRoundToStrike

SpecPure == InitPure /\ [][PureNext]_vars

Next ==
    \/ \E p \in Producers : ProducerOnTick(p)
    \/ \E p \in Producers : ProducerAcquire(p)
    \/ \E p \in Producers : ProducerAppend(p)
    \/ \E p \in Producers : ProducerSet(p)
    \/ \E p \in Producers : ProducerRelease(p)
    \/ WriterWakeSignal
    \/ WriterWakeTimeout
    \/ WriterAcquire
    \/ WriterPop
    \/ WriterDrained
    \/ WriterClear
    \/ WriterRelease
    \/ WriterSkipEmpty
    \/ WriterHasBatch
    \/ WriterOpenOk
    \/ WriterOpenFail
    \/ WriterWriteOk
    \/ WriterWriteFail
    \/ WriterClose

Spec == Init /\ [][Next]_vars

SpecBand == Init /\ [][BandNext]_vars

\* one step of the _writer_loop thread when open and write succeed
WriterStep ==
    \/ WriterWakeSignal
    \/ WriterWakeTimeout
    \/ WriterAcquire
    \/ WriterPop
    \/ WriterDrained
    \/ WriterClear
    \/ WriterRelease
    \/ WriterSkipEmpty
    \/ WriterHasBatch
    \/ WriterOpenOk
    \/ WriterWriteOk
    \/ WriterClose

\* one step of a thread inside enqueue_tick
ProducerStep(p) ==
    \/ ProducerAcquire(p)
    \/ ProducerAppend(p)
    \/ ProducerSet(p)
    \/ ProducerRelease(p)

\* the pipeline with every open and write of OUT_FILE succeeding
LiveNext ==
    \/ \E p \in Producers : ProducerOnTick(p)
    \/ \E p \in Producers : ProducerStep(p)
    \/ WriterStep

\* the threads are scheduled fairly: a thread that can take a step does take
\* one (Event.wait returns when the event is set or FLUSH_INTERVAL is over, a
\* thread inside enqueue_tick runs on to the release of the lock)
SpecLive ==
    /\ Init
    /\ [][LiveNext]_vars
    /\ WF_vars(WriterStep)
    /\ \A p \in Producers : WF_vars(ProducerStep(p))

(***************************************************************************)
(* Claims about the ingestion pipeline (checked under Spec).               *)
(***************************************************************************)

\* the last n elements of s (all of s when it is shorter)
LastN(s, n) == IF Len(s) <= n THEN s ELSE SubSeq(s, Len(s) - n + 1, Len(s))

\* C1: the deque never holds more than QUEUE_MAXLEN records, and an
\* enqueue_tick that finds it full removes exactly the oldest record and adds
\* the new one at the tail; one that finds room only adds at the tail.
C1_QueueBounded ==
    /\ [](Len(write_queue) <= QUEUE_MAXLEN)
    /\ [][\A p \in Producers :
            (ppc[p] = "append" /\ ppc'[p] = "set") =>
                /\ Len(write_queue) = QUEUE_MAXLEN =>
                      /\ Len(write_queue') = QUEUE_MAXLEN
                      /\ \A i \in 1..(QUEUE_MAXLEN - 1) :
                            write_queue'[i] = write_queue[i + 1]
                      /\ write_queue'[QUEUE_MAXLEN] = ptick[p]
                /\ Len(write_queue) < QUEUE_MAXLEN =>
                      write_queue' = write_queue \o <<ptick[p]>>]_vars

\* C1 witness: more records than the capacity were enqueued without a drain
\* in between, and the deque holds exactly the newest QUEUE_MAXLEN of them
C1_Witness ==
    /\ Len(since_drain) > QUEUE_MAXLEN
    /\ Len(write_queue) = QUEUE_MAXLEN
    /\ write_queue = LastN(since_drain, QUEUE_MAXLEN)
    /\ \E p \in Producers : ppc[p] = "set"

\* C2 as stated: when the writer is about to release the lock after a drain,
\* the deque is empty and the batch is exactly the records enqueued since the
\* previous drain, in enqueue order.
C2_DrainExact ==
    wpc = "release" => (write_queue = <<>> /\ batch = since_drain)

\* C2 as amended: when the writer is about to release the lock after a
\* drain, the deque is empty and the batch is, in enqueue order, the records
\* enqueued since the previous drain that overflow did not evict: the newest
\* QUEUE_MAXLEN of them.
C2_DrainSurvivors ==
    wpc = "release" =>
        (write_queue = <<>> /\ batch = LastN(since_drain, QUEUE_MAXLEN))

\* C2 witness: a drain that took two or more records after an overflow
C2_Witness ==
    /\ wpc = "release"
    /\ Len(batch) >= 2
    /\ Len(since_drain) > Len(batch)

\* C8: the writer does not hold _queue_lock while it opens or writes
\* OUT_FILE; the writer holds it only from the drain to the clear of the
\* event, and a producer only for the append and the set of the event.
C8_NoLockDuringIO ==
    /\ wpc \in {"open", "write"} => queue_lock # "writer"
    /\ queue_lock = "writer" => wpc \in {"drain", "clear", "release"}
    /\ \A p \in Producers :
          queue_lock = p => ppc[p] \in {"append", "set", "release"}

\* C8 witness: a producer holds the lock and appends while the writer is in
\* the middle of writing a batch
C8_Witness ==
    /\ wpc = "write"
    /\ widx <= Len(batch)
    /\ \E p \in Producers : queue_lock = p /\ ppc[p] = "set"

\* C9: a failed open or write of OUT_FILE does not end the consumer loop;
\* the writer thread is still running after it.
C9_WriterSurvivesWriteFailure ==
    wpc # "dead"

(***************************************************************************)
(* Claims about the band manager (checked under SpecBand).                 *)
(***************************************************************************)

\* the band of a committed reference strike
BandOf(strike) == IF strike = None THEN {} ELSE BandTokens(strike[1])

\* C3: when unsubscribe_tokens(A - D) and then subscribe_tokens(D - A) have
\* run, with A the current option set, all of it subscribed, and D the new
\* one, the subscribed option ids are exactly D and the spot subscription is
\* untouched; A = D makes no feed call; disjoint A and D unsubscribe all of A
\* and subscribe all of D.
C3_DiffYieldsDesired ==
    (bpc = "commit" /\ current_option_tokens \subseteq sub_at_entry) =>
        LET A == current_option_tokens
            D == new_tokens
        IN /\ subscribed_tokens \ spot_tokens = D
           /\ subscribed_tokens \cap spot_tokens = sub_at_entry \cap spot_tokens
           /\ A = D => ws_calls = <<>>
           /\ A \cap D = {} =>
                 ws_calls =
                    (IF A = {} THEN <<>> ELSE << <<"unsubscribe", A>> >>)
                    \o (IF D = {} THEN <<>>
                        ELSE << <<"subscribe", D>>, <<"set_mode", D>> >>)

\* C3 witness: both calls have run for an A and a D that overlap, with ids
\* leaving and ids entering
C3_Witness ==
    /\ bpc = "commit"
    /\ current_option_tokens \subseteq sub_at_entry
    /\ current_option_tokens \cap new_tokens # {}
    /\ current_option_tokens \ new_tokens # {}
    /\ new_tokens \ current_option_tokens # {}
    /\ subscribed_tokens \ spot_tokens = new_tokens

\* update_option_band is handling a spot tick that rounds to the strike the
\* previous spot tick rounded to
SameAsPreviousSpot ==
    /\ bctx = "ticks"
    /\ bpc \in {"band", "unsub", "sub", "setmode", "commit"}
    /\ last_spot_atm = Some(CurAtm)

\* C4: a spot tick that rounds to the strike of the spot tick
\* before it makes no ws.subscribe, ws.unsubscribe or ws.set_mode call, and
\* update_option_band returns at its first test, leaving current_atm_strike,
\* current_option_tokens and subscribed_tokens as they were.
C4_SameStrikeNoCalls ==
    /\ [](SameAsPreviousSpot => (bpc = "band" /\ ws_calls = <<>>))
    /\ [][(SameAsPreviousSpot /\ bpc = "band") =>
             /\ bpc' = "fetch"
             /\ ws_calls' = <<>>
             /\ UNCHANGED <<current_atm_strike, current_option_tokens,
                            subscribed_tokens>>]_vars

\* C5: whenever no callback is running, on_connect having subscribed the
\* spot ids, subscribed_tokens is the union of spot_tokens and
\* current_option_tokens, and current_option_tokens is the resolved band of
\* current_atm_strike.
C5_QuiescentUnion ==
    (bpc = "idle" /\ connected /\ spot_tokens \subseteq subscribed_tokens) =>
        /\ subscribed_tokens = spot_tokens \cup current_option_tokens
        /\ current_option_tokens = BandOf(current_atm_strike)

\* C6: every id in subscribed_tokens was passed to a ws.subscribe call that
\* returned and to no ws.unsubscribe call since (subscribed_tokens is a set,
\* so no id is in it twice).
C6_SubscribedWasSubscribed ==
    subscribed_tokens \subseteq ok_subscribed

\* C7: once update_option_band has handled a spot tick, whatever its price,
\* current_atm_strike is set and its band is resolved and subscribed.
C7_FirstSpotInitialises ==
    last_spot_atm # <<>> =>
        /\ current_atm_strike # None
        /\ current_option_tokens = BandOf(current_atm_strike)
        /\ current_option_tokens \subseteq subscribed_tokens

\* a record on_ticks cannot handle: an instrument_token int() rejects, or a
\* spot tick without a price
Malformed(t) ==
    \/ TickToken(t) = None
    \/ (TickToken(t)[1] \in spot_tokens /\ t.last_price = None)

\* C10: a malformed record does not end on_ticks early: when its handling
\* raises, no record of the batch is left behind it.
C10_MalformedDoesNotAbort ==
    (bpc = "raised" /\ bctx = "ticks" /\ Malformed(cur_tick)) =>
        tick_idx >= batch_len

\* on_ticks has just handled a priced spot record and update_option_band
\* returned normally for it: every feed call it made succeeded
SpotTickSucceeded ==
    /\ bctx = "ticks"
    /\ bpc = "fetch"
    /\ cur_tick # NoTick
    /\ TickToken(cur_tick) # None
    /\ TickToken(cur_tick)[1] \in spot_tokens
    /\ cur_tick.last_price # None
    /\ last_spot_done

\* C11: a feed call that raises during a reband does not corrupt the
\* manager's view: after any later spot tick whose feed calls all succeed
\* (one that rounds back to current_atm_strike included), subscribed_tokens
\* is spot_tokens union current_option_tokens, current_option_tokens is the
\* band of current_atm_strike, and subscribed_tokens is what the feed has
\* subscribed.
C11_RecoversAfterFeedError ==
    (SpotTickSucceeded /\ spot_tokens \subseteq subscribed_tokens) =>
        /\ subscribed_tokens = spot_tokens \cup current_option_tokens
        /\ current_option_tokens = BandOf(current_atm_strike)
        /\ subscribed_tokens = feed_subs

\* update_option_band has computed new_tokens and not yet returned
InReband ==
    /\ bctx = "ticks"
    /\ bpc \in {"unsub", "sub", "setmode", "commit"}

\* the ids the catalog lists for the NIFTY options of the configured
\* expiries at the strikes atm + k * STRIKE_STEP, k in -2..2
CatalogBand(atm) ==
    {i.instrument_token : i \in
        {j \in NfoInstruments :
            /\ j.name = "NIFTY"
            /\ j.option_type \in {"CE", "PE"}
            /\ j.expiry \in OPTION_EXPIRIES
            /\ \E k \in -2..2 : j.strike = atm + k * STRIKE_STEP}}

\* C12: when the rounded strike differs from current_atm_strike,
\* update_option_band's new_tokens is exactly the set of ids the index
\* resolves for (NIFTY, atm + k * step, CE or PE, expiry), k in -2..2, expiry
\* over all of OPTION_EXPIRIES; a tuple the index does not resolve is skipped
\* and update_option_band goes on.
C12_BandIsResolvedTuples ==
    InReband => new_tokens = CatalogBand(CurAtm[1])

\* C12 witness: a band in which some tuples resolve and others do not (the
\* last expiry lists no 17550), computed without an error
C12_Witness ==
    /\ InReband
    /\ CurAtm = Some(17550)
    /\ CatalogToken(17600, "PE", <<2026, 2, 3>>) \in new_tokens
    /\ CatalogToken(17550, "PE", <<2026, 1, 27>>) \in new_tokens
    /\ CatalogToken(17550, "PE", <<2026, 2, 3>>) \notin new_tokens
    /\ Cardinality(new_tokens) < 30

\* the ids of the catalog's options of one strike, each expiry and both types
StrikeTokens(strike) ==
    {i.instrument_token : i \in
        {j \in NfoInstruments : j.name = "NIFTY" /\ j.strike = strike
                                   /\ j.expiry \in OPTION_EXPIRIES}}

\* C13: a reband calls the feed only for ids that entered or left the band:
\* an id of both the old and the new band is passed to no call, no id is
\* passed to ws.subscribe while the manager or the feed has it subscribed,
\* none to ws.unsubscribe while it is not subscribed; of the spot ticks
\* 17482, 17498, 17526 the second (same strike, 17500) makes no call and the
\* third (17550) unsubscribes only ids of strike 17400 and subscribes only
\* ids of strike 17650.
C13_CallsOnlyForChangedIds ==
    /\ [][(bctx = "ticks" /\ Len(ws_calls') = Len(ws_calls) + 1) =>
            LET call == ws_calls'[Len(ws_calls')]
                t == call[2]
            IN /\ t \cap (current_option_tokens \cap new_tokens) = {}
               /\ call[1] = "subscribe" =>
                     /\ t \subseteq new_tokens \ current_option_tokens
                     /\ t \cap subscribed_tokens = {}
                     /\ t \cap feed_subs = {}
               /\ call[1] = "unsubscribe" =>
                     /\ t \subseteq current_option_tokens \ new_tokens
                     /\ t \subseteq subscribed_tokens
                     /\ t \subseteq feed_subs]_vars
    /\ []((InReband /\ last_spot_atm = Some(Some(17500)) /\ CurAtm = Some(17500))
            => ws_calls = <<>>)
    /\ []((InReband /\ current_atm_strike = Some(17500) /\ CurAtm = Some(17550)) =>
            \A i \in 1..Len(ws_calls) :
                /\ ws_calls[i][1] = "unsubscribe" =>
                       ws_calls[i][2] \subseteq StrikeTokens(17400)
                /\ ws_calls[i][1] \in {"subscribe", "set_mode"} =>
                       ws_calls[i][2] \subseteq StrikeTokens(17650))

\* the catalog entries build_nfo_index_with_expiry kept for an id
CatalogEntries(tok) ==
    {i \in NfoInstruments : Indexed(i) /\ i.instrument_token = tok}

\* C17: the row record_tick writes for an OPT tick whose id is in
\* option_meta_by_token carries the expiry (as an ISO date), the strike and
\* the option type of the catalog entry of that id; for an OPT tick whose id
\* is not in the map and for a SPOT tick the three fields are empty; in each
\* case one row is written for the tick.
C17_RowCarriesCatalogFields ==
    /\ [](csv_row # None =>
            LET row == csv_row[1]
                entries == CatalogEntries(row.instrument_token)
            IN IF row.kind = "OPT" /\ entries # {}
               THEN \A i \in entries :
                       /\ row.expiry = IsoFormat(i.expiry)
                       /\ row.strike = Some(i.strike)
                       /\ row.option_type = i.option_type
               ELSE row.expiry = "" /\ row.strike = None /\ row.option_type = "")
    /\ [][(bpc = "tick" /\ bpc' \in {"band", "fetch"}) =>
             /\ n_rows' = n_rows + 1
             /\ csv_row' # None
             /\ csv_row'[1].instrument_token = TickToken(cur_tick)[1]
             /\ csv_row'[1].last_price = cur_tick.last_price
             /\ csv_row'[1].kind =
                   IF TickToken(cur_tick)[1] \in spot_tokens THEN "SPOT" ELSE "OPT"]_vars

\* C17 witness: the row of a tick of the 17500 CE of 2026-01-20
C17_Witness ==
    /\ csv_row # None
    /\ csv_row[1].kind = "OPT"
    /\ csv_row[1].instrument_token = CatalogToken(17500, "CE", <<2026, 1, 20>>)
    /\ csv_row[1].expiry = "2026-01-20"
    /\ csv_row[1].strike = Some(17500)
    /\ csv_row[1].option_type = "CE"

(***************************************************************************)
(* Further claims about the ingestion pipeline.                            *)
(***************************************************************************)

\* C14: a writer cycle whose drained batch is empty does no I/O: the writer
\* is never at the open or the write of OUT_FILE with an empty batch, and from
\* the test of the empty batch it goes back to the wait with OUT_FILE as it
\* was.
C14_EmptyBatchNoIO ==
    /\ [](wpc \in {"open", "write"} => batch # <<>>)
    /\ [][(wpc = "check" /\ batch = <<>> /\ wpc' # wpc) =>
             (wpc' = "wait" /\ out_file' = out_file)]_vars

\* C14 witness: after a batch was written, a later cycle drained nothing and
\* the writer is back at the wait
C14_Witness ==
    /\ wpc = "wait"
    /\ batch = <<>>
    /\ out_file # <<>>

\* record i is in the deque
InQueue(i) == \E k \in 1..Len(write_queue) : write_queue[k] = i

\* record i is a line of OUT_FILE
Written(i) == \E k \in 1..Len(out_file) : out_file[k] = i

\* C15: the writer does not wait for ever (its wait ends on the event or on
\* the timeout), so with fair scheduling and open and write succeeding every
\* record that is in the deque is later a line of OUT_FILE or was evicted by
\* overflow.
C15_QueuedIsWrittenOrEvicted ==
    \A i \in 1..MaxTicks : InQueue(i) ~> (Written(i) \/ i \in evicted)

\* C15 witness: every record enqueued has left the deque, some written to
\* OUT_FILE and some evicted
C15_Witness ==
    /\ write_queue = <<>>
    /\ out_file # <<>>
    /\ evicted # {}
    /\ \A k \in 1..Len(enq_log) : Written(enq_log[k]) \/ enq_log[k] \in evicted

(***************************************************************************)
(* Claims about pure functions (checked under SpecPure).                   *)
(***************************************************************************)

\* a field that is present, not empty and a date
Usable(v) == v.tag = "datetime" \/ (v.tag = "str" /\ v.val \notin {"", "n/a"})

\* the first usable field in the order timestamp, last_trade_time,
\* exchange_timestamp
FirstUsable(t) ==
    IF Usable(t.timestamp) THEN Some(t.timestamp.val)
    ELSE IF Usable(t.last_trade_time) THEN Some(t.last_trade_time.val)
    ELSE IF Usable(t.exchange_timestamp) THEN Some(t.exchange_timestamp.val)
    ELSE None

\* C16: in the recorder and in the producer the timestamp of a tick is that
\* of the first usable field in the order timestamp, last_trade_time,
\* exchange_timestamp, and the wall-clock time only when none of the three is
\* present and parseable; an earlier field that is present but unparseable
\* is passed over.
C16_FirstUsableField ==
    (fn \in {"_extract_tick_ts", "_extract_ts_from_tick"} /\ fn_result # None) =>
        IF FirstUsable(fn_arg) = None
        THEN fn_result[1].val = "now"
        ELSE fn_result[1].val = FirstUsable(fn_arg)[1]

\* C18: for a numeric spot price round_to_strike returns a multiple of
\* STRIKE_STEP that is nearest to the price, at a distance of at most half a
\* step; a price halfway between two multiples gives one of the two.
C18_NearestMultiple ==
    (fn = "round_to_strike" /\ fn_result # None /\ fn_arg # None) =>
        LET price == fn_arg[1]
            r == fn_result[1]
        IN /\ r # None
           /\ r[1] % STRIKE_STEP = 0
           /\ 2 * (r[1] - price) <= STRIKE_STEP
           /\ 2 * (price - r[1]) <= STRIKE_STEP
           /\ \A m \in (MinPrice - STRIKE_STEP)..(MaxPrice + STRIKE_STEP) :
                 (m % STRIKE_STEP = 0 /\ m # r[1]) =>
                     \/ m - price >= r[1] - price /\ m - price >= price - r[1]
                     \/ price - m >= r[1] - price /\ price - m >= price - r[1]

\* C18 witness: the price halfway between 17500 and 17550 gives 17500
C18_Witness ==
    /\ fn = "round_to_strike"
    /\ fn_arg = Some(17525)
    /\ fn_result = Some(Some(17500))

\* C19: whenever no thread holds _queue_lock, _queue_event is set if and only
\* if _write_queue is not empty; no interleaving of enqueue_tick with the
\* writer's drain and clear leaves records in the deque with the event
\* cleared.
C19_EventIffNonEmpty ==
    queue_lock = "free" => (queue_event <=> write_queue # <<>>)

\* C19 witness: a producer enqueued while the writer was writing the batch
\* of an earlier drain: the lock is free, the deque is not empty and the
\* event is set
C19_Witness ==
    /\ queue_lock = "free"
    /\ wpc = "write"
    /\ write_queue # <<>>
    /\ queue_event
    /\ out_file # <<>>

\* the place of record x in the history of appends
EnqueuePos(x) == CHOOSE k \in 1..Len(enq_log) : enq_log[k] = x

\* record i is still on its way: in the deque, or in the batch of a writer
\* thread that is running
Pending(i) ==
    \/ InQueue(i)
    \/ wpc # "dead" /\ \E k \in 1..Len(batch) : batch[k] = i

\* C20: the lines of OUT_FILE are, in order, a subsequence of the records in
\* the order they were appended to the deque: each line was enqueued, none is
\* written twice, none is written before a record enqueued earlier; and an
\* enqueued record that is neither written nor on its way was evicted by
\* overflow.
C20_WrittenIsSubsequence ==
    /\ \A k \in 1..Len(out_file) : \E j \in 1..Len(enq_log) : enq_log[j] = out_file[k]
    /\ \A k, l \in 1..Len(out_file) :
          k < l => EnqueuePos(out_file[k]) < EnqueuePos(out_file[l])
    /\ \A j \in 1..Len(enq_log) :
          Written(enq_log[j]) \/ Pending(enq_log[j]) \/ enq_log[j] \in evicted

====
